---- MODULE Spec2Model ----
(***************************************************************************)
(* Model of rd_purge_history.py: the main loop over projects, the plan     *)
(* purge_history computes, its chunk loop and remainder batch, and         *)
(* Client.delete_executions, run against a history server whose lists are  *)
(* ordered most-recent-first.                                              *)
(***************************************************************************)
EXTENDS Integers, Sequences, FiniteSets, TLC

\* ---------------------------------------------------------------- bounds
MaxTotal == 5        \* largest initial history of a project
MaxKeep == 2         \* largest --keep_history_size drawn
MaxDelete == 5       \* largest --max_delete_size drawn
MaxChunk == 2        \* largest --chunk_size drawn
MaxFailed == 1       \* most IDs the server refuses in one delete batch
MaxGrowth == 2       \* most executions added to the server during a run
ArgDepth == 2        \* -k and -m are drawn down to -ArgDepth in SpecArgs

Min(a, b) == IF a <= b THEN a ELSE b
Max(a, b) == IF a >= b THEN a ELSE b

\* ------------------------------------------------------- the environment
ProjectList == <<"p1", "p2">>
Projects == {ProjectList[n] : n \in 1..Len(ProjectList)}
NoProject == ""
IdBase(p) == IF p = "p1" THEN 0 ELSE 100

\* A most-recent-first history of n executions: the newest has the largest id.
MkHistory(base, n) == [j \in 1..n |-> base + n - j + 1]

Range(s) == {s[n] : n \in 1..Len(s)}

RECURSIVE SumSeq(_)
SumSeq(s) == IF s = <<>> THEN 0 ELSE Head(s) + SumSeq(Tail(s))

\* The subsets of S with at most k elements.
RECURSIVE UpTo(_, _)
UpTo(S, k) ==
  IF k <= 0 THEN {{}}
  ELSE LET P == UpTo(S, k - 1) IN P \cup {q \cup {x} : q \in P, x \in S}

\* ------------------------------------------------------------ the server
\* history?offset=o&max=m: the events at the positions o+1 .. o+m that exist.
SearchHistory(h, o, m) ==
  LET lo == Max(o + 1, 1)
      hi == Min(o + m, Len(h))
  IN IF lo > hi THEN <<>> ELSE SubSeq(h, lo, hi)

\* The total attribute of a history response.
HistoryTotal(h) == Len(h)

\* The history after the server removed the executions in S.
RemoveExecutions(h, S) == SelectSeq(h, LAMBDA x : x \notin S)

\* ------------------------------------------------- purge_history's plan
KeepHistorySize(t, k) == Min(t, k)

DeletionsIgnoringKeep(t, k, m) == Min(m, t)
DeletionsUncapped(t, k, m) == t - k
Deletions(t, k, m) == Min(m, t - k)

\* divmod(deletions, chunk_size) for chunk_size >= 1 (floor division).
ChunkNum(d, c) == d \div c
Remains(d, c) == d % c

ChunkOffsetOffByOne(t, c, n) == t - c * n
ChunkOffsetFixed(t, c, n) == t - c
ChunkOffsetForward(t, c, n) == c * n
ChunkOffset(t, c, n) == t - c * (n + 1)

RemainsOffsetZero(o, r) == 0
RemainsOffset(o, r) == o - r

\* ids[-chunk_size:]
LastIds(s, c) == IF Len(s) <= c THEN s ELSE SubSeq(s, Len(s) - c + 1, Len(s))

\* ------------------------------------------- Client.delete_executions
SkipPostNever(d) == FALSE
SkipPost(d) == d

ReturnedCountOnlyIfAll(count, allsuccessful) == IF allsuccessful THEN count ELSE 0
ReturnedCount(count, allsuccessful) == count

\* Exit status of the interpreter after an uncaught exception / a normal end.
ExitUncaught == 1
ExitNormal == 0
Running == 0 - 1

VARIABLES
  args,        \* the parsed command line
  hist,        \* server: project -> its history, most recent first
  hist0,       \* the histories when the process started
  added,       \* server: project -> executions added since the start
  pc,          \* position of the process
  projects,    \* main: the list of projects to purge
  pidx,        \* main: index of the current project
  total, keep, deletions, chunk_num, remains, offset, deleted, i, ids,
               \* purge_history's locals
  requests,    \* every HTTP request sent, in order
  calls,       \* every delete_executions call, in order
  returned,    \* the value purge_history returned, per finished project
  exit_code    \* Running until the process ends

locals == <<total, keep, deletions, chunk_num, remains, offset, deleted, i, ids>>
vars == <<args, hist, hist0, added, pc, projects, pidx, total, keep, deletions,
          chunk_num, remains, offset, deleted, i, ids, requests, calls,
          returned, exit_code>>

Req(method, path, p, o, m, s, ok) ==
  [method |-> method, path |-> path, project |-> p, offset |-> o, max |-> m,
   ids |-> s, ok |-> ok]

Call(p, s, posted, confirmed, count, allsuccessful) ==
  [project |-> p, ids |-> s, posted |-> posted, confirmed |-> confirmed,
   count |-> count, allsuccessful |-> allsuccessful]

CurProject == projects[pidx]

\* ------------------------------------------------------------------ Init
InitWith(ks, ms, cs, ps, ts1, ts2) ==
  /\ args \in [keep_history_size : ks, max_delete_size : ms, chunk_size : cs,
               dry_run : BOOLEAN, project : ps]
  /\ hist0 \in {[p \in Projects |-> MkHistory(IdBase(p), IF p = "p1" THEN n1 ELSE n2)] :
                   n1 \in ts1, n2 \in ts2}
  /\ hist = hist0
  /\ added = [p \in Projects |-> 0]
  /\ pc = "main"
  /\ projects = <<>>
  /\ pidx = 1
  /\ total = 0 /\ keep = 0 /\ deletions = 0 /\ chunk_num = 0 /\ remains = 0
  /\ offset = 0 /\ deleted = 0 /\ i = 0 /\ ids = <<>>
  /\ requests = <<>>
  /\ calls = <<>>
  /\ returned = <<>>
  /\ exit_code = Running

Init ==
  InitWith(0..MaxKeep, 0..MaxDelete, 1..MaxChunk, {NoProject, "p1"},
           0..MaxTotal, 0..MaxTotal)

\* ------------------------------------------------------------- transport
\* raise_for_status on a failed request: nothing catches the exception, so
\* the process ends there.
AbortRetried ==
  /\ pc' = pc
  /\ UNCHANGED exit_code

Abort ==
  /\ pc' = "exited"
  /\ exit_code' = ExitUncaught

\* ------------------------------------------------------------------ main
\* if args.project: projects = [args.project]
MainProjectArg ==
  /\ pc = "main"
  /\ args.project # NoProject
  /\ projects' = <<args.project>>
  /\ pc' = "for_project"
  /\ UNCHANGED <<args, hist, hist0, added, pidx, locals, requests, calls,
                 returned, exit_code>>

\* else: projects = get_projects(client)
MainGetProjects ==
  /\ pc = "main"
  /\ args.project = NoProject
  /\ \E ok \in BOOLEAN :
       /\ requests' = Append(requests, Req("GET", "projects", NoProject, 0, 0, <<>>, ok))
       /\ IF ok
            THEN projects' = ProjectList /\ pc' = "for_project" /\ UNCHANGED exit_code
            ELSE Abort /\ UNCHANGED projects
  /\ UNCHANGED <<args, hist, hist0, added, pidx, locals, calls, returned>>

\* --------------------------------------------------------- purge_history
\* total, keep_history_size, deletions, divmod, offset = total, deleted = 0
PurgeStart ==
  /\ pc = "for_project"
  /\ pidx <= Len(projects)
  /\ \E ok \in BOOLEAN :
       /\ requests' = Append(requests, Req("GET", "history", CurProject, 0, 0, <<>>, ok))
       /\ IF ok
            THEN LET t == HistoryTotal(hist[CurProject])
                     k == KeepHistorySize(t, args.keep_history_size)
                     d == Deletions(t, k, args.max_delete_size)
                 IN /\ total' = t
                    /\ keep' = k
                    /\ deletions' = d
                    /\ chunk_num' = ChunkNum(d, args.chunk_size)
                    /\ remains' = Remains(d, args.chunk_size)
                    /\ offset' = t
                    /\ deleted' = 0
                    /\ i' = 0
                    /\ ids' = <<>>
                    /\ pc' = "for_chunk"
                    /\ UNCHANGED exit_code
            ELSE Abort /\ UNCHANGED locals
  /\ UNCHANGED <<args, hist, hist0, added, projects, pidx, calls, returned>>

\* One get_execution_ids call: the request and the ids it yields.
GetExecutionIds(o, m, trim, nextpc) ==
  \E ok \in BOOLEAN :
    /\ requests' = Append(requests, Req("GET", "history", CurProject, o, m, <<>>, ok))
    /\ offset' = o
    /\ IF ok
         THEN /\ ids' = (IF trim THEN LastIds(SearchHistory(hist[CurProject], o, m), m)
                                 ELSE SearchHistory(hist[CurProject], o, m))
              /\ pc' = nextpc
              /\ UNCHANGED exit_code
         ELSE Abort /\ UNCHANGED ids

\* for i in range(chunk_num): offset, ids = get_execution_ids(...)[-chunk_size:]
ChunkFetch ==
  /\ pc = "for_chunk"
  /\ i < chunk_num
  /\ GetExecutionIds(ChunkOffset(total, args.chunk_size, i), args.chunk_size,
                     TRUE, "chunk_delete")
  /\ UNCHANGED <<args, hist, hist0, added, projects, pidx, total, keep,
                 deletions, chunk_num, remains, deleted, i, calls, returned>>

\* Client.delete_executions(ids, dry_run) and deleted += its result.
DeleteExecutions(nextpc) ==
  \/ /\ SkipPost(args.dry_run)
     /\ calls' = Append(calls, Call(CurProject, ids, FALSE, 0, 0, TRUE))
     /\ deleted' = deleted + 0
     /\ pc' = nextpc
     /\ UNCHANGED <<hist, requests, exit_code>>
  \/ /\ ~SkipPost(args.dry_run)
     /\ \E ok \in BOOLEAN :
          /\ requests' = Append(requests,
                 Req("POST", "executions/delete", CurProject, 0, 0, ids, ok))
          /\ IF ok
               THEN \E refused \in UpTo(Range(ids), MaxFailed) :
                      LET done == Range(ids) \ refused
                          count == Cardinality(done)
                          allsuccessful == (refused = {})
                          ret == ReturnedCount(count, allsuccessful)
                      IN /\ hist' = [hist EXCEPT ![CurProject] = RemoveExecutions(@, done)]
                         /\ calls' = Append(calls,
                                Call(CurProject, ids, TRUE, count, ret, allsuccessful))
                         /\ deleted' = deleted + ret
                         /\ pc' = nextpc
                         /\ UNCHANGED exit_code
               ELSE Abort /\ UNCHANGED <<hist, calls, deleted>>

ChunkDelete ==
  /\ pc = "chunk_delete"
  /\ DeleteExecutions("for_chunk")
  /\ i' = i + 1
  /\ UNCHANGED <<args, hist0, added, projects, pidx, total, keep, deletions,
                 chunk_num, remains, offset, ids, returned>>

\* if remains > 0: offset -= remains; ids = get_execution_ids(.., offset, remains)
RemainsFetch ==
  /\ pc = "for_chunk"
  /\ i >= chunk_num
  /\ remains > 0
  /\ GetExecutionIds(RemainsOffset(offset, remains), remains, FALSE, "remains_delete")
  /\ UNCHANGED <<args, hist, hist0, added, projects, pidx, total, keep,
                 deletions, chunk_num, remains, deleted, i, calls, returned>>

RemainsDelete ==
  /\ pc = "remains_delete"
  /\ DeleteExecutions("return")
  /\ UNCHANGED <<args, hist0, added, projects, pidx, total, keep, deletions,
                 chunk_num, remains, offset, i, ids, returned>>

\* return deleted; main logs it and moves to the next project.
PurgeReturn ==
  /\ \/ pc = "return"
     \/ pc = "for_chunk" /\ i >= chunk_num /\ remains <= 0
  /\ returned' = Append(returned, [project |-> CurProject, deleted |-> deleted])
  /\ pidx' = pidx + 1
  /\ pc' = "for_project"
  /\ UNCHANGED <<args, hist, hist0, added, projects, locals, requests, calls,
                 exit_code>>

\* The for loop over projects is exhausted: the script ends.
MainExit ==
  /\ pc = "for_project"
  /\ pidx > Len(projects)
  /\ pc' = "exited"
  /\ exit_code' = ExitNormal
  /\ UNCHANGED <<args, hist, hist0, added, projects, pidx, locals, requests,
                 calls, returned>>

Next ==
  \/ MainProjectArg
  \/ MainGetProjects
  \/ PurgeStart
  \/ ChunkFetch
  \/ ChunkDelete
  \/ RemainsFetch
  \/ RemainsDelete
  \/ PurgeReturn
  \/ MainExit

Spec == Init /\ [][Next]_vars

\* ------------------------------------------- other specifications
\* The command line accepts any integer for -k and -m; the plan is computed
\* by PurgeStart.
InitArgs ==
  InitWith((0 - ArgDepth)..MaxKeep, (0 - ArgDepth)..MaxDelete, 1..MaxChunk,
           {NoProject, "p1"}, 0..MaxTotal, 0..MaxTotal)

NextArgs ==
  \/ MainProjectArg
  \/ MainGetProjects
  \/ PurgeStart

SpecArgs == InitArgs /\ [][NextArgs]_vars

\* total=55, keepCount=20, maxDelete=1000, chunkSize=20 on project p1; the
\* other project has no history.
InitScenario == InitWith({20}, {1000}, {20}, {NoProject, "p1"}, {55}, {0})

SpecScenario == InitScenario /\ [][Next]_vars

\* Somebody else starts executions while the purge runs: each new execution
\* enters its project's history at the most-recent end.
NewExecution ==
  /\ pc # "exited"
  /\ \E p \in Projects :
       /\ SumSeq([n \in 1..Len(ProjectList) |-> added[ProjectList[n]]]) < MaxGrowth
       /\ added' = [added EXCEPT ![p] = @ + 1]
       /\ hist' = [hist EXCEPT
                     ![p] = <<IdBase(p) + Len(hist0[p]) + added[p] + 1>> \o @]
  /\ UNCHANGED <<args, hist0, pc, projects, pidx, locals, requests, calls,
                 returned, exit_code>>

NextGrowth == Next \/ NewExecution

\* The growth runs start with all the history in project p1.
InitGrowth ==
  InitWith(0..MaxKeep, 0..MaxDelete, 1..MaxChunk, {NoProject, "p1"},
           0..MaxTotal, {0})

SpecGrowth == InitGrowth /\ [][NextGrowth]_vars

\* ------------------------------------------------------------ properties
\* What the logs say about project p.
FetchesOf(p) ==
  LET s == SelectSeq(requests, LAMBDA r : r.path = "history" /\ r.project = p /\ r.max > 0)
  IN [j \in 1..Len(s) |-> [offset |-> s[j].offset, max |-> s[j].max]]
PostsOf(p) == SelectSeq(requests, LAMBDA r : r.method = "POST" /\ r.project = p)
CallsOf(p) == SelectSeq(calls, LAMBDA c : c.project = p)
ReturnsOf(p) == SelectSeq(returned, LAMBDA r : r.project = p)
Finished(p) == ReturnsOf(p) # <<>>
Submitted(p) == UNION {Range(CallsOf(p)[j].ids) : j \in 1..Len(CallsOf(p))}
SubmittedCount(p) == SumSeq([j \in 1..Len(CallsOf(p)) |-> Len(CallsOf(p)[j].ids)])
ConfirmedCount(p) == SumSeq([j \in 1..Len(CallsOf(p)) |-> CallsOf(p)[j].confirmed])
FullSuccess(p) == \A j \in 1..Len(CallsOf(p)) : CallsOf(p)[j].allsuccessful
AllOk == \A j \in 1..Len(requests) : requests[j].ok
InPurgeOf(p) ==
  pc \in {"for_chunk", "chunk_delete", "remains_delete", "return"} /\ CurProject = p
IsPrefix(a, b) == Len(a) <= Len(b) /\ a = SubSeq(b, 1, Len(a))

\* The plan as section 8 of the specification states it, for arguments >= 0.
T0(p) == Len(hist0[p])
K0(p) == Min(T0(p), args.keep_history_size)
D0(p) == Min(args.max_delete_size, Max(0, T0(p) - K0(p)))
Newest(h, n) == Range(SubSeq(h, 1, Min(n, Len(h))))

\* The fetches of a whole run over an initial total t: the full chunks walk
\* from offset t - c down, the remainder batch sits right above the kept ones.
ExpectedFetches(t, d, c) ==
  LET n == d \div c
      r == d % c
  IN [j \in 1..(n + (IF r > 0 THEN 1 ELSE 0)) |->
        IF j <= n THEN [offset |-> t - c * j, max |-> c]
                  ELSE [offset |-> t - d, max |-> r]]

\* C1: keep-count safety. Every history fetch of a run uses an offset >=
\* min(total, keepCount), no id among the min(total, keepCount) newest records
\* is ever submitted, those records stay the head of the server's history, and
\* a project with total <= keepCount gets no fetch, no submission and no POST.
KeepCountSafety ==
  \A p \in Projects :
    /\ \A j \in 1..Len(FetchesOf(p)) : FetchesOf(p)[j].offset >= K0(p)
    /\ Submitted(p) \cap Newest(hist0[p], K0(p)) = {}
    /\ IsPrefix(SubSeq(hist0[p], 1, K0(p)), hist[p])
    /\ T0(p) <= args.keep_history_size =>
         FetchesOf(p) = <<>> /\ CallsOf(p) = <<>> /\ PostsOf(p) = <<>>

KeepCountSafetyWitness ==
  /\ exit_code = ExitNormal
  /\ \E p \in Projects :
       /\ Finished(p) /\ K0(p) > 0 /\ T0(p) > K0(p)
       /\ Len(PostsOf(p)) >= 2
       /\ ~FullSuccess(p)
       /\ Len(hist[p]) < T0(p)
  /\ \E q \in Projects :
       Finished(q) /\ T0(q) > 0 /\ T0(q) <= args.keep_history_size /\ hist[q] = hist0[q]

\* C2: deletion cap. The ids one run submits to delete_executions, summed over
\* all its batches, never exceed maxDelete, nor does the running or returned
\* deleted count; with maxDelete = 0 nothing is fetched, submitted or posted.
DeletionCap ==
  \A p \in Projects :
    /\ SubmittedCount(p) <= args.max_delete_size
    /\ \A j \in 1..Len(ReturnsOf(p)) : ReturnsOf(p)[j].deleted <= args.max_delete_size
    /\ (pc # "main" /\ pc # "exited" /\ pidx <= Len(projects)) =>
         deleted <= args.max_delete_size
    /\ args.max_delete_size = 0 => CallsOf(p) = <<>> /\ PostsOf(p) = <<>>

DeletionCapWitness ==
  \E p \in Projects :
    /\ Finished(p) /\ ~args.dry_run
    /\ T0(p) - K0(p) > args.max_delete_size
    /\ Len(CallsOf(p)) >= 2
    /\ SubmittedCount(p) = args.max_delete_size
    /\ ReturnsOf(p)[1].deleted = args.max_delete_size

\* C3: dry run. With dry_run no POST is ever sent, the server's history stays
\* as it was and every purge_history returns 0; and, dry or not, the history
\* fetches (offset, max) a run issues are those the initial total, keepCount,
\* maxDelete and chunkSize determine.
DryRunReadsOnly ==
  /\ args.dry_run =>
       /\ \A j \in 1..Len(requests) : requests[j].method # "POST"
       /\ hist = hist0
       /\ \A j \in 1..Len(returned) : returned[j].deleted = 0
       /\ \A j \in 1..Len(calls) : ~calls[j].posted /\ calls[j].count = 0
  /\ \A p \in Projects :
       /\ IsPrefix(FetchesOf(p), ExpectedFetches(T0(p), D0(p), args.chunk_size))
       /\ (Finished(p) \/ (AllOk /\ exit_code = ExitNormal /\ p \in Range(projects)))
            => FetchesOf(p) = ExpectedFetches(T0(p), D0(p), args.chunk_size)

DryRunReadsOnlyWitness ==
  /\ args.dry_run
  /\ exit_code = ExitNormal
  /\ \E p \in Projects :
       /\ Finished(p)
       /\ Len(FetchesOf(p)) >= 2
       /\ Len(CallsOf(p)) >= 2
       /\ \A j \in 1..Len(CallsOf(p)) : CallsOf(p)[j].ids # <<>>
       /\ ReturnsOf(p)[1].deleted = 0

\* C4: partial deletion failure is not fatal. delete_executions returns the
\* count the server confirmed whether or not allsuccessful is true, the running
\* total is the sum of the confirmed counts, a run that meets no transport
\* error submits every batch of its plan, and purge_history returns the sum of
\* the confirmed counts of its batches.
PartialFailureNonFatal ==
  /\ \A j \in 1..Len(calls) : calls[j].count = calls[j].confirmed
  /\ InPurgeOf(CurProject) => deleted = ConfirmedCount(CurProject)
  /\ \A p \in Projects :
       Finished(p) =>
         /\ ReturnsOf(p)[1].deleted = ConfirmedCount(p)
         /\ Len(CallsOf(p)) = Len(ExpectedFetches(T0(p), D0(p), args.chunk_size))
         /\ Len(FetchesOf(p)) = Len(CallsOf(p))

PartialFailureNonFatalWitness ==
  \E p \in Projects :
    /\ Finished(p)
    /\ Len(CallsOf(p)) >= 3
    /\ ~CallsOf(p)[1].allsuccessful
    /\ CallsOf(p)[1].confirmed > 0
    /\ CallsOf(p)[1].confirmed < Len(CallsOf(p)[1].ids)
    /\ ReturnsOf(p)[1].deleted = ConfirmedCount(p)
    /\ ReturnsOf(p)[1].deleted < SubmittedCount(p)

\* C5: transport errors abort the run and are never retried. A failed request
\* is the last request the process ever sends and ends it with a non-zero
\* exit; from then on neither the request log nor the server's history
\* changes (no retry, no later chunk or project, no rollback); a process that
\* ends without a failed request exits with zero.
Failed == \E j \in 1..Len(requests) : ~requests[j].ok
TransportErrorsAbort ==
  /\ [](/\ \A j \in 1..(Len(requests) - 1) : requests[j].ok
        /\ Failed => pc = "exited" /\ exit_code # Running /\ exit_code # 0
        /\ (pc = "exited" /\ ~Failed) => exit_code = 0
        /\ (pc = "exited") <=> (exit_code # Running))
  /\ [][Failed => (requests' = requests /\ hist' = hist /\ pc' = pc)]_vars

TransportErrorsAbortWitness ==
  /\ Failed
  /\ pc = "exited"
  /\ exit_code = ExitUncaught
  /\ projects = ProjectList
  /\ pidx = 1
  /\ Len(PostsOf("p1")) >= 2
  /\ requests[Len(requests)].method = "POST"
  /\ Len(hist["p1"]) < T0("p1")
  /\ T0("p2") > args.keep_history_size
  /\ args.max_delete_size > 0
  /\ FetchesOf("p2") = <<>>

\* C6 as claimed: in the scenario total=55, keepCount=20, maxDelete=1000,
\* chunkSize=20 the plan has deletions = 35 and the run fetches 20 ids at
\* offset 15, then 15 ids at offset 0, returning 35 on full success.
ScenarioAsClaimed ==
  /\ InPurgeOf("p1") => deletions = 35
  /\ Finished("p1") =>
    /\ FetchesOf("p1") = <<[offset |-> 15, max |-> 20], [offset |-> 0, max |-> 15]>>
    /\ (~args.dry_run /\ FullSuccess("p1")) => ReturnsOf("p1")[1].deleted = 35

\* C6 amended: in that scenario deletions = 35 and the run fetches 20 ids at
\* offset 35 (the 20 oldest records), then 15 ids at offset 20 (right above
\* the 20 kept ones), returning 35 on full success.
ScenarioWithRemainder ==
  /\ IsPrefix(FetchesOf("p1"),
              <<[offset |-> 35, max |-> 20], [offset |-> 20, max |-> 15]>>)
  /\ InPurgeOf("p1") => deletions = 35 /\ chunk_num = 1 /\ remains = 15
  /\ Finished("p1") =>
       /\ FetchesOf("p1") = <<[offset |-> 35, max |-> 20], [offset |-> 20, max |-> 15]>>
       /\ Len(CallsOf("p1")) = 2
       /\ Len(CallsOf("p1")[1].ids) = 20
       /\ Len(CallsOf("p1")[2].ids) = 15
       /\ (~args.dry_run /\ FullSuccess("p1")) =>
            /\ ReturnsOf("p1")[1].deleted = 35
            /\ hist["p1"] = SubSeq(hist0["p1"], 1, 20)

ScenarioWithRemainderWitness ==
  /\ T0("p1") = 55 /\ args.keep_history_size = 20 /\ args.chunk_size = 20
  /\ args.max_delete_size = 1000
  /\ ~args.dry_run
  /\ exit_code = ExitNormal
  /\ Finished("p1")
  /\ FullSuccess("p1")
  /\ ReturnsOf("p1")[1].deleted = 35

\* An execution id is larger the more recent the execution is.
Older(a, b) == \A x \in Range(a), y \in Range(b) : x < y

\* C7 as claimed: each batch of a run covers records older than the batch
\* before it, and the remainder batch covers the oldest `remainder` eligible
\* records.
BatchesNewestFirst ==
  \A p \in Projects :
    /\ \A j \in 1..(Len(CallsOf(p)) - 1) : Older(CallsOf(p)[j + 1].ids, CallsOf(p)[j].ids)
    /\ (Finished(p) /\ D0(p) % args.chunk_size > 0) =>
         CallsOf(p)[Len(CallsOf(p))].ids =
           SubSeq(hist0[p], T0(p) - (D0(p) % args.chunk_size) + 1, T0(p))

\* C7 amended: the batches of a run go from the oldest records to the most
\* recent eligible ones: each batch covers records newer than the batch before
\* it, and the remainder batch, the last one, covers the most recent
\* `remainder` of the records planned for deletion.
BatchesOldestFirst ==
  \A p \in Projects :
    /\ \A j \in 1..(Len(CallsOf(p)) - 1) : Older(CallsOf(p)[j].ids, CallsOf(p)[j + 1].ids)
    /\ \A j \in 1..Len(CallsOf(p)) : CallsOf(p)[j].ids # <<>>
    /\ (Finished(p) /\ D0(p) % args.chunk_size > 0) =>
         CallsOf(p)[Len(CallsOf(p))].ids =
           SubSeq(hist0[p], T0(p) - D0(p) + 1, T0(p) - D0(p) + (D0(p) % args.chunk_size))

BatchesOldestFirstWitness ==
  \E p \in Projects :
    /\ Finished(p)
    /\ Len(CallsOf(p)) >= 2
    /\ D0(p) % args.chunk_size > 0
    /\ K0(p) > 0
    /\ ~FullSuccess(p)

\* C8: the plan. After purge_history computed its plan, deletions >= 0, the
\* clamped keep count is <= total, chunk_num * chunk_size + remains =
\* deletions with 0 <= remains < chunk_size, and the number of ids the loop
\* and the remainder batch will request equals deletions.
Planned == pc = "for_chunk" /\ i = 0
PlannedRequests ==
  (IF chunk_num > 0 THEN chunk_num * args.chunk_size ELSE 0)
    + (IF remains > 0 THEN remains ELSE 0)
PurgePlanInvariant ==
  Planned =>
    /\ deletions >= 0
    /\ keep <= total
    /\ chunk_num * args.chunk_size + remains = deletions
    /\ 0 <= remains /\ remains < args.chunk_size
    /\ PlannedRequests = deletions

\* C9: exact deleted set. In a run that posts every batch and has every batch
\* confirmed in full, each fetch returns what the same fetch returns from the
\* initial snapshot, no id is submitted twice, and once the run is over the
\* submitted ids are the `deletions` oldest records of the snapshot and the
\* server keeps exactly the rest: the keepCount newest when the cap allows.
ExactDeletedSet ==
  \A p \in Projects :
    (~args.dry_run /\ FullSuccess(p)) =>
      /\ \A j \in 1..Len(CallsOf(p)) :
           /\ CallsOf(p)[j].ids =
                SearchHistory(hist0[p], FetchesOf(p)[j].offset, FetchesOf(p)[j].max)
           /\ Cardinality(Range(CallsOf(p)[j].ids)) = Len(CallsOf(p)[j].ids)
           /\ Len(CallsOf(p)[j].ids) = FetchesOf(p)[j].max
      /\ \A j, n \in 1..Len(CallsOf(p)) :
           j # n => Range(CallsOf(p)[j].ids) \cap Range(CallsOf(p)[n].ids) = {}
      /\ Finished(p) =>
           /\ Submitted(p) = Range(SubSeq(hist0[p], T0(p) - D0(p) + 1, T0(p)))
           /\ hist[p] = SubSeq(hist0[p], 1, T0(p) - D0(p))
           /\ args.max_delete_size >= T0(p) - K0(p) =>
                hist[p] = SubSeq(hist0[p], 1, K0(p))

ExactDeletedSetWitness ==
  \E p \in Projects :
    /\ Finished(p) /\ ~args.dry_run /\ FullSuccess(p)
    /\ Len(CallsOf(p)) >= 3
    /\ K0(p) > 0
    /\ args.max_delete_size >= T0(p) - K0(p)
    /\ Len(hist[p]) = K0(p)

\* C10: keep-count safety while the history grows. From the moment a batch of
\* ids is fetched until it is handed to delete_executions, none of its ids is
\* among the keepCount most recent records of the live history.
KeepCountSafetyUnderGrowth ==
  /\ (pc \in {"chunk_delete", "remains_delete"}) =>
       Range(ids) \cap Newest(hist[CurProject], args.keep_history_size) = {}
  /\ \A p \in Projects :
       Newest(hist[p], args.keep_history_size) \cap Submitted(p) = {}

KeepCountSafetyUnderGrowthWitness ==
  /\ pc = "remains_delete"
  /\ total = T0(CurProject)
  /\ added[CurProject] >= 2
  /\ HistoryTotal(hist[CurProject]) # total
  /\ args.keep_history_size > 0
  /\ ids # <<>>
  /\ Len(CallsOf(CurProject)) >= 1
  /\ CallsOf(CurProject)[1].posted
  /\ \E x \in Range(ids) : x \in Newest(hist0[CurProject], args.keep_history_size)

====
